---- MODULE Spec2Model ----
(***************************************************************************)
(* Identity and room-admission subsystem of the collaboration backend:     *)
(* accounts/views.py (register, login, me), rooms/models.py (Room,         *)
(* RoomMember, join-code allocation) and rooms/views.py (create, join).    *)
(*                                                                         *)
(* Strings are sequences of one-character strings, so that strip(),        *)
(* lower() and upper() are computed character by character.                *)
(* Every client runs one request at a time; requests of different clients  *)
(* interleave at the granularity of single database queries.               *)
(***************************************************************************)
EXTENDS Integers, Sequences, FiniteSets, Bags, TLC

VARIABLES users, rooms, members, now, held, registered, pc, req

vars == <<users, rooms, members, now, held, registered, pc, req>>

(***************************************************************************)
(* Bounds of the model.                                                    *)
(***************************************************************************)
\* Largest value of the logical clock.
MaxTime == 2
\* Lifetime of an access token, in clock ticks.
AccessLifetime == 2
\* Value at which the count of colliding draws of one save() saturates.
MaxAttempts == 2
\* The concurrent clients.
Clients == {"c1", "c2"}

(***************************************************************************)
(* Characters and the string functions of Python used by the views.        *)
(***************************************************************************)
Uppers == <<"A","B","C","D","E","F","G","H","I","J","K","L","M",
            "N","O","P","Q","R","S","T","U","V","W","X","Y","Z">>

Lowers == <<"a","b","c","d","e","f","g","h","i","j","k","l","m",
            "n","o","p","q","r","s","t","u","v","w","x","y","z">>

Digits == <<"0","1","2","3","4","5","6","7","8","9">>

SeqRange(s) == {s[i] : i \in DOMAIN s}

UpperChar(c) ==
    IF \E i \in DOMAIN Lowers : Lowers[i] = c
    THEN Uppers[CHOOSE i \in DOMAIN Lowers : Lowers[i] = c]
    ELSE c

LowerChar(c) ==
    IF \E i \in DOMAIN Uppers : Uppers[i] = c
    THEN Lowers[CHOOSE i \in DOMAIN Uppers : Uppers[i] = c]
    ELSE c

\* str.upper()
Upper(s) == [i \in DOMAIN s |-> UpperChar(s[i])]

\* str.lower()
Lower(s) == [i \in DOMAIN s |-> LowerChar(s[i])]

\* str.strip()
RECURSIVE Strip(_)
Strip(s) ==
    IF s = <<>> THEN s
    ELSE IF Head(s) = " " THEN Strip(Tail(s))
    ELSE IF s[Len(s)] = " " THEN Strip(SubSeq(s, 1, Len(s) - 1))
    ELSE s

(***************************************************************************)
(* rooms/models.py: the join code.                                         *)
(***************************************************************************)
JOIN_ALPHABET == <<"A","B","C","D","E","F","G","H","J","K","L","M","N","P","Q","R",
                   "S","T","U","V","W","X","Y","Z","2","3","4","5","6","7","8","9">>

JOIN_LEN == 8

\* The outcomes of the random source that the model explores: JOIN_LEN
\* indices into JOIN_ALPHABET, one per call of random.choice.
PickOf(k) == [i \in 1..JOIN_LEN |-> ((k * i) % Len(JOIN_ALPHABET)) + 1]

RandomPicks == {PickOf(1), PickOf(2)}

\* Variant: range(JOIN_LEN - 1), a code one character short.
generate_join_code_short(picks) ==
    [i \in 1..(JOIN_LEN - 1) |-> JOIN_ALPHABET[picks[i]]]

generate_join_code(picks) == [i \in 1..JOIN_LEN |-> JOIN_ALPHABET[picks[i]]]

(***************************************************************************)
(* The inputs the clients send.                                            *)
(***************************************************************************)
\* Email addresses are kept short: a one-letter local part and a one-letter
\* domain stand for an address such as person@example.com.
EmailA == <<"a", "@", "x">>

\* EmailA in another letter case, with surrounding whitespace.
EmailAVariant == <<" ", "A", "@", "X", " ">>

EmailB == <<"b", "@", "x">>

\* EmailB with an upper-case local part.
EmailBVariant == <<"B", "@", "x">>

\* Not an email address: EmailField rejects it.
EmailMalformed == <<"a", "x">>

EmailInputs == {EmailA, EmailAVariant, EmailB, EmailBVariant, EmailMalformed}

Repeat(c, n) == [i \in 1..n |-> c]

MIN_PASSWORD_LEN == 8

Pw1 == Repeat("p", MIN_PASSWORD_LEN)

Pw2 == Repeat("q", MIN_PASSWORD_LEN)

PwShort == Repeat("p", MIN_PASSWORD_LEN - 1)

\* The (email, password) pairs a client submits: every email with Pw1, and
\* EmailA also with another password and with one that is too short.
CredentialInputs ==
    {<<e, Pw1>> : e \in EmailInputs} \cup {<<EmailA, Pw2>>, <<EmailA, PwShort>>}

\* The handle of an identity created before email-based login.
LegacyHandle == <<"l", "u">>

NAME_MAX_LENGTH == 80

JOIN_INPUT_MAX_LENGTH == 32

NameInputs == {<<"T">>, <<>>, Repeat("n", NAME_MAX_LENGTH + 1)}

\* A well-formed code that generate_join_code never returns in this model.
UnknownCode == Repeat("Z", JOIN_LEN)

\* For each code that can be drawn: the code, and the code in lower case
\* with surrounding whitespace; an unknown code, a blank and an overlong one.
JoinInputs ==
    UNION {{generate_join_code(k), <<" ">> \o Lower(generate_join_code(k)) \o <<" ">>}
           : k \in RandomPicks}
      \cup {UnknownCode, <<" ">>, Repeat("A", JOIN_INPUT_MAX_LENGTH + 1)}

(***************************************************************************)
(* accounts: the identity store (django.contrib.auth User rows).           *)
(***************************************************************************)
\* make_password / check_password: a one-way hash, kept here as a tagged
\* copy of the password so that two hashes agree iff the passwords do.
make_password(p) == <<"hash", p>>

check_password(p, hashed) == hashed = make_password(p)

\* BaseUserManager.normalize_email: lower-cases the domain part only.
normalize_email(e) ==
    IF "@" \in SeqRange(e)
    THEN LET at == CHOOSE i \in DOMAIN e :
                     e[i] = "@" /\ \A j \in DOMAIN e : e[j] = "@" => j <= i
         IN  [i \in DOMAIN e |-> IF i > at THEN LowerChar(e[i]) ELSE e[i]]
    ELSE e

UserRow(id, username, email, password) ==
    [id |-> id, username |-> username, email |-> normalize_email(email),
     password |-> make_password(password)]

\* AutoField primary key: rows are never deleted.
NextUserId(us) == Cardinality(us) + 1

\* EmailField: the value holds exactly one "@" with text on both sides.
IsEmail(e) ==
    /\ Cardinality({i \in DOMAIN e : e[i] = "@"}) = 1
    /\ e[1] # "@"
    /\ e[Len(e)] # "@"
    /\ " " \notin SeqRange(e)

\* User.objects.filter(email=email).exists(): an exact match.
EmailExists(us, email) == \E u \in us : u.email = email

\* RegisterSerializer.validate_email, after EmailField trimmed the value.
validate_email(us, value) ==
    LET email == Lower(Strip(value))
    IN  [email |-> email, ok |-> ~EmailExists(us, email)]

IsNumeric(p) == \A i \in DOMAIN p : p[i] \in SeqRange(Digits)

\* RegisterSerializer.validate_password and AUTH_PASSWORD_VALIDATORS
\* (minimum length, entirely numeric).
PasswordOk(p) == Len(p) >= MIN_PASSWORD_LEN /\ ~IsNumeric(p)

\* Variant: the part of the email before the "@" as the username.
_username_local_part(email) ==
    LET e == Lower(Strip(email))
    IN  IF \E i \in 1..Len(e) : e[i] = "@"
        THEN SubSeq(e, 1, (CHOOSE i \in 1..Len(e) : e[i] = "@") - 1)
        ELSE e

_username_from_email(email) == Lower(Strip(email))

\* Variant: User.username without its unique constraint.
UsernameFreeUnchecked(us, username) == TRUE

\* The unique constraint on User.username.
UsernameFree(us, username) == \A u \in us : u.username # username

\* ModelBackend.authenticate: the row whose username is the given one, if
\* the password matches; the empty set otherwise.
authenticate(us, username, password) ==
    {u \in us : u.username = username /\ check_password(password, u.password)}

(***************************************************************************)
(* Credentials: rest_framework_simplejwt access tokens.                    *)
(***************************************************************************)
NoToken == [sub |-> 0, exp |-> 0, sig |-> "none"]

\* RefreshToken.for_user(user).access_token
AccessToken(user, t) == [sub |-> user.id, exp |-> t + AccessLifetime, sig |-> "valid"]

\* Variant: a verification that does not check the signature.
VerifyTokenUnsigned(tok, us, t) ==
    IF tok = NoToken THEN "none"
    ELSE IF tok.exp <= t THEN "expired"
    ELSE IF \A u \in us : u.id # tok.sub THEN "invalid"
    ELSE "ok"

\* Variant: a verification that does not look at the expiry.
VerifyTokenNoExpiry(tok, us, t) ==
    IF tok = NoToken THEN "none"
    ELSE IF tok.sig # "valid" THEN "invalid"
    ELSE IF \A u \in us : u.id # tok.sub THEN "invalid"
    ELSE "ok"

\* JWTAuthentication: "none" without a header, else the outcome of the
\* signature check, the expiry check and the lookup of the subject.
VerifyToken(tok, us, t) ==
    IF tok = NoToken THEN "none"
    ELSE IF tok.sig # "valid" THEN "invalid"
    ELSE IF tok.exp <= t THEN "expired"
    ELSE IF \A u \in us : u.id # tok.sub THEN "invalid"
    ELSE "ok"

UserById(us, id) == CHOOSE u \in us : u.id = id

\* The tokens a client can make of one it holds without the signing key:
\* the subject or the expiry rewritten, under a signature that no longer
\* matches.
Altered(tok) ==
    IF tok.sig # "valid" THEN {}
    ELSE {[tok EXCEPT !.sub = (@ % 2) + 1, !.sig = "bad"],
          [tok EXCEPT !.exp = @ + 1, !.sig = "bad"]}

\* What a client sends as its bearer token: the token it holds, or a copy
\* with the subject or the expiry rewritten.
TokenForms == {"own", "sub", "exp"}

Present(tok, form) ==
    IF form = "own" \/ tok.sig # "valid" THEN tok
    ELSE CHOOSE t \in Altered(tok) :
            IF form = "sub" THEN t.sub # tok.sub ELSE t.exp # tok.exp

(***************************************************************************)
(* rooms: the Room and RoomMember tables.                                  *)
(***************************************************************************)
DEFAULT_MAX_USERS == 10

RoomRow(id, name, code, creator, t) ==
    [id |-> id, name |-> name, join_code |-> code, created_by |-> creator,
     created_at |-> t, max_users |-> DEFAULT_MAX_USERS]

\* uuid.uuid4(): a fresh identifier; rows are never deleted.
NextRoomId(rs) == Cardinality(rs) + 1

\* A RoomMember row.  The table is a bag of rows: two rows of one pair stay
\* two rows even when they agree on every column (the automatic primary
\* key, which no code reads, is not kept).
MemberRow(room, user, t) == [room |-> room, user |-> user, joined_at |-> t]

RowsOf(ms, room, user) == {m \in BagToSet(ms) : m.room = room /\ m.user = user}

\* Room.objects.filter(join_code=code).exists()
JoinCodeExists(rs, code) == \E r \in rs : r.join_code = code

\* Variant: Room.join_code without unique=True.
JoinCodeFreeUnchecked(rs, code) == TRUE

\* The unique constraint on Room.join_code, checked by the insert.
JoinCodeFree(rs, code) == \A r \in rs : r.join_code # code

\* Variant: RoomMember without unique_together.
MemberFreeUnchecked(ms, room, user) == TRUE

\* unique_together (room, user), checked by the insert.
MemberFree(ms, room, user) == RowsOf(ms, room, user) = {}

\* RoomMember.objects.get(room=room, user=user) finds a row.
IsMember(ms, room, user) == RowsOf(ms, room, user) # {}

RoomById(rs, id) == CHOOSE r \in rs : r.id = id

\* CharField(max_length=n): trimmed, not blank, at most n characters.
CharFieldOk(value, n) == Strip(value) # <<>> /\ Len(Strip(value)) <= n

(***************************************************************************)
(* The request a client has in flight, and the response it last received.  *)
(***************************************************************************)
NoErrors == {}

IdleReq ==
    [op |-> "none", input |-> <<>>, password |-> <<>>, email |-> <<>>,
     code |-> <<>>, room |-> 0, attempts |-> 0, user |-> 0,
     status |-> 0, errors |-> NoErrors, id |-> 0, text |-> <<>>, access |-> NoToken,
     doc |-> <<>>, list |-> <<>>, token |-> NoToken]

Respond(r, status, errors, id, text, access) ==
    [r EXCEPT !.status = status, !.errors = errors, !.id = id, !.text = text,
              !.access = access]

(***************************************************************************)
(* accounts/views.py                                                       *)
(***************************************************************************)
\* register_view up to the end of serializer.is_valid: EmailField, then
\* validate_email with its existence query, and validate_password.
register_validate(c, e, p) ==
    /\ pc[c] = "idle"
    /\ LET value == Strip(e)
           checked == validate_email(users, value)
           emailErrors ==
               IF ~IsEmail(value) THEN {<<"email", "Enter a valid email address.">>}
               ELSE IF ~checked.ok THEN {<<"email", "Email already in use.">>}
               ELSE NoErrors
           passwordErrors ==
               IF ~PasswordOk(p) THEN {<<"password", "Password too weak.">>}
               ELSE NoErrors
           errors == emailErrors \cup passwordErrors
           r == [IdleReq EXCEPT !.op = "register", !.input = e, !.password = p]
       IN  IF errors # NoErrors
           THEN /\ req' = [req EXCEPT ![c] = Respond(r, 400, errors, 0, <<>>, NoToken)]
                /\ pc' = [pc EXCEPT ![c] = "done"]
           ELSE /\ req' = [req EXCEPT ![c] = [r EXCEPT !.email = checked.email]]
                /\ pc' = [pc EXCEPT ![c] = "create_user"]
    /\ UNCHANGED <<users, rooms, members, now, held, registered>>

\* tokens_for_user: the access token and the user summary of the response.
tokens_for_user(r, status, user, t) ==
    Respond(r, status, NoErrors, user.id, user.email, AccessToken(user, t))

\* register_view: create_user inside transaction.atomic, IntegrityError
\* mapped to 400.
register_create(c) ==
    /\ pc[c] = "create_user"
    /\ LET email == req[c].email
           username == _username_from_email(email)
           user == UserRow(NextUserId(users), username, email, req[c].password)
       IN  IF UsernameFree(users, username)
           THEN /\ users' = users \cup {user}
                /\ registered' = registered \cup
                      {[id |-> user.id, email |-> email, password |-> req[c].password]}
                /\ req' = [req EXCEPT ![c] = tokens_for_user(req[c], 201, user, now)]
                /\ held' = [held EXCEPT ![c] = AccessToken(user, now)]
           ELSE /\ req' = [req EXCEPT ![c] =
                      Respond(req[c], 400, {<<"message", "Email already in use.">>},
                              0, <<>>, NoToken)]
                /\ UNCHANGED <<users, registered, held>>
    /\ pc' = [pc EXCEPT ![c] = "done"]
    /\ UNCHANGED <<rooms, members, now>>

\* Variant: the submitted email handed to authenticate as it was received.
login_lookup_raw(us, value, password) == authenticate(us, value, password)

\* The users login_view authenticates: the submitted email is trimmed and
\* lower-cased, and is the username handed to authenticate.
login_lookup(us, value, password) ==
    authenticate(us, _username_from_email(Lower(Strip(value))), password)

\* Variant: a failure answer that tells an unknown email from a wrong password.
InvalidCredentialsLeaky(us, value) ==
    IF \A u \in us : u.username # _username_from_email(Lower(Strip(value)))
    THEN {<<"message", "Unknown email.">>}
    ELSE {<<"message", "Wrong password.">>}

\* The body of the 401 answer of login_view, whatever made authenticate fail.
InvalidCredentials(us, value) == {<<"message", "Invalid credentials.">>}

login_view(c, e, p) ==
    /\ pc[c] = "idle"
    /\ LET value == Strip(e)
           found == login_lookup(users, value, p)
           r == [IdleReq EXCEPT !.op = "login", !.input = e, !.password = p]
       IN  IF ~IsEmail(value)
           THEN /\ req' = [req EXCEPT ![c] =
                      Respond(r, 400, {<<"email", "Enter a valid email address.">>},
                              0, <<>>, NoToken)]
                /\ UNCHANGED held
           ELSE IF found = {}
           THEN /\ req' = [req EXCEPT ![c] =
                      Respond(r, 401, InvalidCredentials(users, value), 0, <<>>, NoToken)]
                /\ UNCHANGED held
           ELSE LET user == CHOOSE u \in found : TRUE
                IN  /\ req' = [req EXCEPT ![c] = tokens_for_user(r, 200, user, now)]
                    /\ held' = [held EXCEPT ![c] = AccessToken(user, now)]
    /\ pc' = [pc EXCEPT ![c] = "done"]
    /\ UNCHANGED <<users, rooms, members, now, registered>>

\* me_view behind IsAuthenticated, for the bearer token the client sends:
\* the summary of the token's subject.
me_view(c, form) ==
    /\ pc[c] = "idle"
    /\ LET tok == Present(held[c], form)
           verdict == VerifyToken(tok, users, now)
           r == [IdleReq EXCEPT !.op = "me", !.token = tok]
       IN  IF verdict = "ok"
           THEN LET u == UserById(users, tok.sub)
                IN  req' = [req EXCEPT ![c] =
                       Respond([r EXCEPT !.user = u.id], 200, NoErrors, u.id, u.email, NoToken)]
           ELSE req' = [req EXCEPT ![c] =
                       Respond(r, 401, {<<"detail", verdict>>}, 0, <<>>, NoToken)]
    /\ pc' = [pc EXCEPT ![c] = "done"]
    /\ UNCHANGED <<users, rooms, members, now, held, registered>>

(***************************************************************************)
(* rooms/views.py and rooms/models.py                                      *)
(***************************************************************************)
RoomOps == {"create", "join", "list"}

\* permission_classes = [IsAuthenticated]: a request without a valid token
\* is answered 401 before the view runs.
unauthenticated(c, op) ==
    /\ pc[c] = "idle"
    /\ VerifyToken(held[c], users, now) # "ok"
    /\ req' = [req EXCEPT ![c] =
          Respond([IdleReq EXCEPT !.op = op], 401,
                  {<<"detail", VerifyToken(held[c], users, now)>>}, 0, <<>>, NoToken)]
    /\ pc' = [pc EXCEPT ![c] = "done"]
    /\ UNCHANGED <<users, rooms, members, now, held, registered>>

\* RoomViewSet.create up to Room.objects.create: the name is validated and
\* Room.save enters its allocation loop with an empty join_code.
create(c, name) ==
    /\ pc[c] = "idle"
    /\ VerifyToken(held[c], users, now) = "ok"
    /\ LET r == [IdleReq EXCEPT !.op = "create", !.input = name, !.user = held[c].sub]
       IN  IF ~CharFieldOk(name, NAME_MAX_LENGTH)
           THEN /\ req' = [req EXCEPT ![c] =
                      Respond(r, 400, {<<"name", "invalid">>}, 0, <<>>, NoToken)]
                /\ pc' = [pc EXCEPT ![c] = "done"]
           ELSE /\ req' = [req EXCEPT ![c] = r]
                /\ pc' = [pc EXCEPT ![c] = "alloc"]
    /\ UNCHANGED <<users, rooms, members, now, held, registered>>

\* One iteration of the while True loop of Room.save: draw a code, query
\* for a room that has it, keep it if there is none.  The loop has no exit
\* other than a free code; attempts counts the colliding draws, up to
\* MaxAttempts.
save_draw(c, picks) ==
    /\ pc[c] = "alloc"
    /\ LET code == generate_join_code(picks)
       IN  IF JoinCodeExists(rooms, code)
           THEN /\ req' = [req EXCEPT ![c].attempts =
                              IF @ < MaxAttempts THEN @ + 1 ELSE @]
                /\ UNCHANGED pc
           ELSE /\ req' = [req EXCEPT ![c].code = code]
                /\ pc' = [pc EXCEPT ![c] = "insert"]
    /\ UNCHANGED <<users, rooms, members, now, held, registered>>

\* super().save(): the INSERT of the room.  A violation of the unique
\* constraint on join_code raises IntegrityError, which nothing catches:
\* the request ends with a server error.
save_insert(c) ==
    /\ pc[c] = "insert"
    /\ IF JoinCodeFree(rooms, req[c].code)
       THEN LET room == RoomRow(NextRoomId(rooms), Strip(req[c].input), req[c].code,
                                req[c].user, now)
            IN  /\ rooms' = rooms \cup {room}
                /\ req' = [req EXCEPT ![c].room = room.id]
                /\ pc' = [pc EXCEPT ![c] = "get"]
       ELSE /\ req' = [req EXCEPT ![c] =
                  Respond(req[c], 500, {<<"exception", "IntegrityError">>}, 0, <<>>, NoToken)]
            /\ pc' = [pc EXCEPT ![c] = "done"]
            /\ UNCHANGED rooms
    /\ UNCHANGED <<users, members, now, held, registered>>

\* Variant: the submitted code trimmed but not upper-cased.
normalize_code_no_upper(value) == Strip(value)

\* s.validated_data["join_code"].strip().upper()
normalize_code(value) == Upper(Strip(value))

\* Variant: a lookup that ignores the code and returns the rooms there are.
find_room_any(rs, code) == rs

\* Room.objects.get(join_code=code): the rooms with exactly that code.
find_room(rs, code) == {r \in rs : r.join_code = code}

\* RoomViewSet.join up to Room.objects.get: the code is validated, trimmed
\* and upper-cased, and the room looked up.
join(c, input) ==
    /\ pc[c] = "idle"
    /\ VerifyToken(held[c], users, now) = "ok"
    /\ LET r == [IdleReq EXCEPT !.op = "join", !.input = input, !.user = held[c].sub]
           code == normalize_code(Strip(input))
       IN  IF ~CharFieldOk(input, JOIN_INPUT_MAX_LENGTH)
           THEN /\ req' = [req EXCEPT ![c] =
                      Respond(r, 400, {<<"join_code", "invalid">>}, 0, <<>>, NoToken)]
                /\ pc' = [pc EXCEPT ![c] = "done"]
           ELSE IF find_room(rooms, code) = {}
           THEN /\ req' = [req EXCEPT ![c] =
                      Respond([r EXCEPT !.code = code], 404, {<<"detail", "invalid-code">>},
                              0, <<>>, NoToken)]
                /\ pc' = [pc EXCEPT ![c] = "done"]
           ELSE LET room == CHOOSE x \in find_room(rooms, code) : TRUE
                IN  /\ req' = [req EXCEPT ![c] = [r EXCEPT !.code = code, !.room = room.id]]
                    /\ pc' = [pc EXCEPT ![c] = "get"]
    /\ UNCHANGED <<users, rooms, members, now, held, registered>>

\* f"room:{room.id}"
doc_name(id) == <<"room:", id>>

\* Variant: an answer that echoes the submitted code instead of the room's.
RoomViewEcho(r, rs) ==
    LET room == RoomById(rs, r.room)
    IN  [Respond(r, IF r.op = "create" THEN 201 ELSE 200, NoErrors, room.id,
                 IF r.op = "create" THEN room.join_code ELSE Strip(r.input), NoToken)
            EXCEPT !.doc = doc_name(room.id)]

\* The response of create (201) and of join (200): RoomSerializer(room).data
\* and the doc_name of the room.
RoomView(r, rs) ==
    LET room == RoomById(rs, r.room)
    IN  [Respond(r, IF r.op = "create" THEN 201 ELSE 200, NoErrors, room.id,
                 room.join_code, NoToken)
            EXCEPT !.doc = doc_name(room.id)]

\* The number of RoomMember rows of a user in a room.
MembershipCount(ms, room, user) ==
    BagCardinality([m \in RowsOf(ms, room, user) |-> ms[m]])

\* Room.objects.filter(memberships__user=user).order_by("-created_at"): the
\* join yields a room once per membership row of the user; rooms of equal
\* created_at come in an order the database chooses.
list_queryset(ms, rs, user) ==
    LET ids == {r.id : r \in rs}
        n == BagCardinality([m \in {x \in BagToSet(ms) : x.user = user} |-> ms[m]])
    IN  {s \in [1..n -> ids] :
            /\ \A id \in ids :
                  Cardinality({i \in 1..n : s[i] = id}) = MembershipCount(ms, id, user)
            /\ \A i \in 1..n, j \in 1..n :
                  i < j => RoomById(rs, s[i]).created_at >= RoomById(rs, s[j]).created_at}

\* RoomViewSet.list: the ids of the rooms of the queryset, in its order.
list(c) ==
    /\ pc[c] = "idle"
    /\ VerifyToken(held[c], users, now) = "ok"
    /\ \E s \in list_queryset(members, rooms, held[c].sub) :
          req' = [req EXCEPT ![c] =
             [Respond([IdleReq EXCEPT !.op = "list", !.user = held[c].sub],
                      200, NoErrors, 0, <<>>, NoToken) EXCEPT !.list = s]]
    /\ pc' = [pc EXCEPT ![c] = "done"]
    /\ UNCHANGED <<users, rooms, members, now, held, registered>>

\* RoomMember.objects.get_or_create, first query: the row, if it exists.
get_or_create_get(c) ==
    /\ pc[c] = "get"
    /\ IF IsMember(members, req[c].room, req[c].user)
       THEN /\ req' = [req EXCEPT ![c] = RoomView(req[c], rooms)]
            /\ pc' = [pc EXCEPT ![c] = "done"]
       ELSE /\ pc' = [pc EXCEPT ![c] = "insert_member"]
            /\ UNCHANGED req
    /\ UNCHANGED <<users, rooms, members, now, held, registered>>

\* RoomMember.objects.get_or_create, second query: the INSERT; on a
\* violation of unique_together the row another request inserted is read
\* back and the call returns normally.
get_or_create_insert(c) ==
    /\ pc[c] = "insert_member"
    /\ IF MemberFree(members, req[c].room, req[c].user)
       THEN members' = members (+) SetToBag({MemberRow(req[c].room, req[c].user, now)})
       ELSE UNCHANGED members
    /\ req' = [req EXCEPT ![c] = RoomView(req[c], rooms)]
    /\ pc' = [pc EXCEPT ![c] = "done"]
    /\ UNCHANGED <<users, rooms, now, held, registered>>

\* RoomViewSet.create runs outside any transaction (no transaction.atomic,
\* no ATOMIC_REQUESTS): when the request dies after Room.objects.create has
\* committed (the worker is killed, the database connection drops), the
\* room row stays and the request ends with a server error.
create_abort(c) ==
    /\ pc[c] \in {"get", "insert_member"}
    /\ req[c].op = "create"
    /\ req' = [req EXCEPT ![c] =
          Respond(req[c], 500, {<<"exception", "OperationalError">>}, 0, <<>>, NoToken)]
    /\ pc' = [pc EXCEPT ![c] = "done"]
    /\ UNCHANGED <<users, rooms, members, now, held, registered>>

(***************************************************************************)
(* The environment: time passes; a client reads its response and is free   *)
(* to send the next request.                                               *)
(***************************************************************************)
Tick ==
    /\ now < MaxTime
    /\ now' = now + 1
    /\ UNCHANGED <<users, rooms, members, held, registered, pc, req>>

Reset(c) ==
    /\ pc[c] = "done"
    /\ pc' = [pc EXCEPT ![c] = "idle"]
    /\ req' = [req EXCEPT ![c] = IdleReq]
    /\ UNCHANGED <<users, rooms, members, now, held, registered>>

(***************************************************************************)
(* Spec: the room operations, by clients that hold the access tokens of    *)
(* two registered identities.                                              *)
(***************************************************************************)
UserA == UserRow(1, EmailA, EmailA, Pw1)

UserB == UserRow(2, EmailB, EmailB, Pw2)

\* The token of UserB with the subject rewritten to UserA: the signature no
\* longer matches the content.
ForgedToken == [AccessToken(UserB, 0) EXCEPT !.sub = UserA.id, !.sig = "bad"]

Init ==
    /\ users = {UserA, UserB}
    /\ registered = {[id |-> UserA.id, email |-> EmailA, password |-> Pw1],
                     [id |-> UserB.id, email |-> EmailB, password |-> Pw2]}
    /\ rooms = {}
    /\ members = EmptyBag
    /\ now = 0
    /\ held \in {[c \in Clients |-> IF c = "c1" THEN AccessToken(UserA, 0) ELSE t]
                 : t \in {AccessToken(UserA, 1 - AccessLifetime),
                          AccessToken(UserB, 1 - AccessLifetime),
                          NoToken, ForgedToken}}
    /\ pc = [c \in Clients |-> "idle"]
    /\ req = [c \in Clients |-> IdleReq]

Next ==
    \/ \E c \in Clients, op \in RoomOps : unauthenticated(c, op)
    \/ \E c \in Clients, name \in NameInputs : create(c, name)
    \/ \E c \in Clients, picks \in RandomPicks : save_draw(c, picks)
    \/ \E c \in Clients : save_insert(c)
    \/ \E c \in Clients, input \in JoinInputs : join(c, input)
    \/ \E c \in Clients : get_or_create_get(c)
    \/ \E c \in Clients : get_or_create_insert(c)
    \/ \E c \in Clients : create_abort(c)
    \/ \E c \in Clients : list(c)
    \/ \E c \in Clients : Reset(c)
    \/ Tick

Spec == Init /\ [][Next]_vars

(***************************************************************************)
(* AuthSpec: registration, login and whoami, from an identity store that   *)
(* is empty or holds one identity created before email-based login.        *)
(***************************************************************************)
\* tests.py, test_login_supports_legacy_usernames: the handle is not the email.
LegacyLower == UserRow(1, LegacyHandle, EmailB, Pw1)

\* A legacy identity whose stored email is not lower-cased.
LegacyMixed == UserRow(1, LegacyHandle, EmailBVariant, Pw1)

InitialStores == {{}, {LegacyLower}, {LegacyMixed}}

AuthInit ==
    /\ users \in InitialStores
    /\ registered = {}
    /\ rooms = {}
    /\ members = EmptyBag
    /\ now = 0
    /\ held = [c \in Clients |-> NoToken]
    /\ pc = [c \in Clients |-> "idle"]
    /\ req = [c \in Clients |-> IdleReq]

AuthNext ==
    \/ \E c \in Clients, in \in CredentialInputs : register_validate(c, in[1], in[2])
    \/ \E c \in Clients : register_create(c)
    \/ \E c \in Clients, in \in CredentialInputs : login_view(c, in[1], in[2])
    \/ \E c \in Clients, form \in TokenForms : me_view(c, form)
    \/ \E c \in Clients : Reset(c)
    \/ Tick

AuthSpec == AuthInit /\ [][AuthNext]_vars

(***************************************************************************)
(* Properties of the room operations (Spec).                               *)
(***************************************************************************)
Done(c, op) == pc[c] = "done" /\ req[c].op = op

Failed(c, exception) == <<"exception", exception>> \in req[c].errors

ExactlyOneRow(ms, room, user) ==
    \E m \in RowsOf(ms, room, user) :
        RowsOf(ms, room, user) = {m} /\ CopiesIn(m, ms) = 1

\* C1: in every reachable state, whatever the interleaving of the create
\* requests, no two persisted rooms have the same join code.
C1_JoinCodesUnique ==
    \A r1 \in rooms, r2 \in rooms : r1.join_code = r2.join_code => r1 = r2

\* Two creates drew the same candidate: one holds the code, the other was
\* refused by the insert.
C1_Witness ==
    \E c \in Clients :
        /\ Done(c, "create")
        /\ Failed(c, "IntegrityError")
        /\ \E r \in rooms : r.join_code = req[c].code /\ r.id # req[c].room

\* C2: a create request that loses the race for a drawn code retries and
\* succeeds too: every create request with a valid token and name that the
\* storage let run to its end answers 201.
C2_RacingCreatesBothSucceed ==
    \A c \in Clients :
        (/\ Done(c, "create")
         /\ req[c].status \notin {400, 401}
         /\ ~Failed(c, "OperationalError"))
        => req[c].status = 201

\* C3: the allocation loop of a create request ends after a bounded number
\* of colliding draws: no request is still in the loop after MaxAttempts
\* collisions.
C3_AllocationBounded ==
    \A c \in Clients : pc[c] = "alloc" => req[c].attempts < MaxAttempts

\* C5: create is all-or-nothing: once a create request has ended, the room
\* row it inserted and its creator's membership row both exist, or the
\* request left no room row.
C5_CreateAllOrNothing ==
    \A c \in Clients :
        Done(c, "create") =>
            \/ req[c].room = 0
            \/ /\ \E r \in rooms : r.id = req[c].room
               /\ IsMember(members, req[c].room, req[c].user)

\* C6: there is at most one membership row per (room, identity); a join that
\* found its room, and a create that answered 201, end without error and
\* leave exactly one row for their pair.
C6_OneMembershipPerPair ==
    /\ \A m \in BagToSet(members) : ExactlyOneRow(members, m.room, m.user)
    /\ \A c \in Clients :
          (Done(c, "join") /\ req[c].room # 0) =>
              (req[c].status = 200 /\ ExactlyOneRow(members, req[c].room, req[c].user))
    /\ \A c \in Clients :
          (Done(c, "create") /\ req[c].status = 201) =>
              ExactlyOneRow(members, req[c].room, req[c].user)

\* Two requests of one identity race for one pair: one has inserted the row
\* and answered, the other found no row and is about to insert.
C6_Witness ==
    \E c \in Clients, d \in Clients :
        /\ c # d
        /\ Done(c, "join") /\ req[c].status = 200
        /\ pc[d] = "insert_member"
        /\ req[d].room = req[c].room /\ req[d].user = req[c].user
        /\ IsMember(members, req[d].room, req[d].user)

AmbiguousChars == {"0", "O", "1", "I"}

C10_CodesWellFormed ==
    \A r \in rooms :
        /\ Len(r.join_code) = 8
        /\ \A i \in DOMAIN r.join_code : r.join_code[i] \in SeqRange(JOIN_ALPHABET)

\* C10 (as claimed): every persisted join code has exactly 8 characters of
\* the allocation alphabet, which has 33 symbols, none of them 0, O, 1, I.
C10_Alphabet33 ==
    /\ C10_CodesWellFormed
    /\ Cardinality(SeqRange(JOIN_ALPHABET)) = 33
    /\ SeqRange(JOIN_ALPHABET) \cap AmbiguousChars = {}

\* C10 (amended): every persisted join code has exactly 8 characters of the
\* allocation alphabet, which has 32 distinct symbols, none of them 0, O, 1, I.
C10_Alphabet32 ==
    /\ C10_CodesWellFormed
    /\ Len(JOIN_ALPHABET) = 32
    /\ Cardinality(SeqRange(JOIN_ALPHABET)) = 32
    /\ SeqRange(JOIN_ALPHABET) \cap AmbiguousChars = {}

\* Two rooms are persisted, with different codes.
C10_Witness ==
    \E r1 \in rooms, r2 \in rooms : r1.join_code # r2.join_code

(***************************************************************************)
(* Properties of registration, login and whoami (AuthSpec).                *)
(***************************************************************************)
\* The trimmed, lower-cased form of a submitted email.
Normalized(e) == Lower(Strip(e))

ValidRegistration(c) ==
    /\ Done(c, "register")
    /\ IsEmail(Strip(req[c].input))
    /\ PasswordOk(req[c].password)

DuplicateIdentity(c) ==
    /\ req[c].status = 400
    /\ \E e \in req[c].errors : e[2] = "Email already in use."

\* C4: of the register requests for one normalized email, in any letter
\* case and any interleaving, at most one creates an identity; every other
\* one with a valid email and password ends with 400 'Email already in
\* use', never with a storage error, and only when an identity holding
\* that email or handle exists.
C4_OneRegistrationPerEmail ==
    /\ \A g1 \in registered, g2 \in registered : g1.email = g2.email => g1 = g2
    /\ \A c \in Clients :
          ValidRegistration(c) =>
              \/ /\ req[c].status = 201
                 /\ \E g \in registered :
                       g.id = req[c].id /\ g.email = Normalized(req[c].input)
              \/ /\ DuplicateIdentity(c)
                 /\ \E u \in users :
                       \/ u.email = Normalized(req[c].input)
                       \/ u.username = Normalized(req[c].input)

\* Two registrations of one email in different letter cases both passed the
\* existence query; one created the identity, the insert of the other was
\* refused.
C4_Witness ==
    \E c \in Clients, d \in Clients :
        /\ ValidRegistration(c) /\ req[c].status = 201
        /\ ValidRegistration(d) /\ DuplicateIdentity(d)
        /\ <<"message", "Email already in use.">> \in req[d].errors
        /\ req[c].input # req[d].input
        /\ Normalized(req[c].input) = Normalized(req[d].input)

\* C7: an identity whose handle differs from its email logs in with its
\* email, in any letter case, and its password: the login answers 200 with
\* an access token of that identity.
C7_LegacyLoginByEmail ==
    \A c \in Clients :
        Done(c, "login") =>
            \A u \in users :
                (/\ u.username # u.email
                 /\ Lower(u.email) = Normalized(req[c].input)
                 /\ check_password(req[c].password, u.password))
                => (/\ req[c].status = 200
                    /\ req[c].id = u.id
                    /\ req[c].access # NoToken)

LoginStep(c) == pc[c] = "idle" /\ pc'[c] = "done" /\ req'[c].op = "login"

MeStep(c) == pc[c] = "idle" /\ pc'[c] = "done" /\ req'[c].op = "me"

\* C8: a login with the password and the email of a successful registration,
\* the email in any letter case and with surrounding whitespace, answers 200
\* with the identity id the registration returned and a token of that
\* identity; whoami with a token that has not expired answers with the
\* identity of the token.
C8_RegisterThenLogin ==
    [][\A c \in Clients :
          /\ LoginStep(c) =>
                \A g \in registered :
                    (Normalized(req'[c].input) = g.email /\ req'[c].password = g.password)
                    => (/\ req'[c].status = 200
                        /\ req'[c].id = g.id
                        /\ req'[c].access.sub = g.id
                        /\ held'[c] = req'[c].access)
          /\ (MeStep(c) /\ req'[c].token = held[c] /\ held[c] # NoToken /\ held[c].exp > now) =>
                (/\ req'[c].status = 200
                 /\ req'[c].id = held[c].sub
                 /\ \E g \in users : g.id = req'[c].id /\ g.email = req'[c].text)]_vars

\* A client logged in with another spelling of a registered email and holds
\* the token; whoami of the registering client answered the same identity.
C8_Witness ==
    \E c \in Clients, d \in Clients, g \in registered :
        /\ Done(c, "login") /\ req[c].status = 200 /\ req[c].id = g.id
        /\ req[c].input # g.email
        /\ held[c] = req[c].access
        /\ Done(d, "me") /\ req[d].token = held[d]
        /\ req[d].status = 200 /\ req[d].id = g.id

\* C9: no two identities have emails that are equal when letter case is
\* ignored.
C9_EmailsUniqueAnyCase ==
    \A u1 \in users, u2 \in users : Lower(u1.email) = Lower(u2.email) => u1 = u2

\* What a client observes of an answer.
Observable(c) ==
    [status |-> req[c].status, errors |-> req[c].errors, id |-> req[c].id,
     text |-> req[c].text, access |-> req[c].access]

\* A login that was refused for its credentials.
LoginRefused(c) == Done(c, "login") /\ IsEmail(Strip(req[c].input)) /\ req[c].status # 200

KnownEmail(c) == \E u \in users : Lower(u.email) = Normalized(req[c].input)

\* C11: a login fails only with 401 'Invalid credentials.', and any two
\* failed logins, one for an email no identity has and one for an existing
\* email with a wrong password, are answered identically.
C11_LoginFailureUndifferentiated ==
    /\ \A c \in Clients :
          LoginRefused(c) =>
              (req[c].status = 401 /\ req[c].errors = {<<"message", "Invalid credentials.">>})
    /\ \A c \in Clients, d \in Clients :
          (LoginRefused(c) /\ LoginRefused(d)) => Observable(c) = Observable(d)

\* One client was refused for an email no identity has, the other for the
\* email of a registered identity with another password.
C11_Witness ==
    \E c \in Clients, d \in Clients :
        /\ LoginRefused(c) /\ ~KnownEmail(c)
        /\ LoginRefused(d) /\ KnownEmail(d)
        /\ \E g \in registered :
              g.email = Normalized(req[d].input) /\ g.password # req[d].password

(***************************************************************************)
(* Properties of join and of the room list (Spec).                         *)
(***************************************************************************)
\* The step in which the view of request op of client c starts to run.
Starts(c, op) == pc[c] = "idle" /\ pc'[c] # "idle" /\ req'[c].op = op

\* The step in which the request of client c is answered.
Answered(c, op) == pc[c] # "done" /\ pc'[c] = "done" /\ req'[c].op = op

\* The trimmed, upper-cased form of a submitted join code.
Canonical(input) == Upper(Strip(input))

\* C12: a join whose input equals the join code of an existing room after
\* trimming and upper-casing, in any letter case, resolves to that room,
\* and its answer carries that room's id and code.
C12_JoinFindsRoomByCanonicalCode ==
    [][\A c \in Clients :
          /\ (Starts(c, "join") /\ req'[c].status # 401) =>
                \A r \in rooms :
                    r.join_code = Canonical(req'[c].input)
                    => (pc'[c] = "get" /\ req'[c].room = r.id)
          /\ (Answered(c, "join") /\ req[c].room # 0) =>
                (/\ req'[c].status = 200
                 /\ req'[c].id = req[c].room
                 /\ req'[c].text = Canonical(req[c].input)
                 /\ \E r \in rooms : r.id = req'[c].id /\ r.join_code = req'[c].text)]_vars

\* A join was answered for a room whose code it had submitted in lower case
\* and with surrounding whitespace.
C12_Witness ==
    \E c \in Clients :
        /\ Done(c, "join") /\ req[c].status = 200
        /\ req[c].input # req[c].text
        /\ \E r \in rooms : r.id = req[c].id /\ r.join_code = Canonical(req[c].input)

\* C13: a join with a well-formed code that, trimmed and upper-cased, is the
\* code of no room is answered 404 'invalid-code' at once and changes
\* neither the rooms nor the memberships.
C13_UnknownCodeNotFound ==
    [][\A c \in Clients :
          (/\ Starts(c, "join")
           /\ req'[c].status # 401
           /\ CharFieldOk(req'[c].input, JOIN_INPUT_MAX_LENGTH)
           /\ \A r \in rooms : r.join_code # Canonical(req'[c].input))
          => (/\ pc'[c] = "done"
              /\ req'[c].status = 404
              /\ req'[c].errors = {<<"detail", "invalid-code">>}
              /\ req'[c].room = 0
              /\ rooms' = rooms
              /\ members' = members)]_vars

\* A join with an unknown code was answered 404 while rooms and memberships
\* exist.
C13_Witness ==
    \E c \in Clients :
        /\ Done(c, "join") /\ req[c].status = 404
        /\ rooms # {}
        /\ members # EmptyBag

\* The answer of a create or of a join that names a room.
RoomAnswer(c) ==
    /\ pc[c] = "done" /\ req[c].op \in {"create", "join"}
    /\ req[c].status \in {200, 201}

\* C14: a join by an identity that is already a member of the room, as its
\* creator or from an earlier join, writes nothing: rooms and membership
\* rows, joined_at included, stay as they were, and no step ever changes or
\* removes a row; its answer carries the id, the join code and the doc_name
\* of the room, the same as every other answer for that room, that of the
\* create included.
C14_JoinIdempotent ==
    [][/\ \A c \in Clients :
             (/\ pc'[c] # pc[c]
              /\ req'[c].op = "join"
              /\ IsMember(members, req'[c].room, req'[c].user))
             => (members' = members /\ rooms' = rooms)
       /\ rooms \subseteq rooms'
       /\ members \sqsubseteq members'
       /\ \A c \in Clients :
             (Answered(c, "join") /\ req'[c].status = 200)
             => /\ \E r \in rooms : /\ r.id = req'[c].room
                                    /\ req'[c].id = r.id
                                    /\ req'[c].text = r.join_code
                                    /\ req'[c].doc = <<"room:", r.id>>
                /\ IsMember(members', req'[c].room, req'[c].user)
                /\ \A d \in Clients :
                      (RoomAnswer(d) /\ req[d].room = req'[c].room)
                      => (/\ req'[c].id = req[d].id
                          /\ req'[c].text = req[d].text
                          /\ req'[c].doc = req[d].doc)]_vars

\* The creator of a room, still reading the answer of its create, joined the
\* room from another client under a different spelling of the code: the
\* answers agree and the pair has one membership row.
C14_Witness ==
    \E c \in Clients, d \in Clients :
        /\ Done(c, "create") /\ req[c].status = 201
        /\ Done(d, "join") /\ req[d].status = 200
        /\ req[d].user = req[c].user
        /\ req[d].id = req[c].id
        /\ req[d].input # req[c].text
        /\ ExactlyOneRow(members, req[c].id, req[c].user)

(***************************************************************************)
(* Properties of the access tokens (AuthSpec).                             *)
(***************************************************************************)
\* C15: register and login issue a token of the identity they answer with,
\* expiring AccessLifetime after the issue; whoami with an issued token
\* answers the identity of the token at any time before the expiry and is
\* refused as expired from the expiry on; whoami with a token whose subject
\* or expiry was rewritten is refused as invalid.
C15_TokenValidityWindow ==
    [][\A c \in Clients :
          /\ held'[c] # held[c] =>
                (/\ req'[c].status \in {200, 201}
                 /\ held'[c] = [sub |-> req'[c].id, exp |-> now + AccessLifetime,
                                sig |-> "valid"]
                 /\ req'[c].access = held'[c])
          /\ MeStep(c) =>
                LET tok == req'[c].token
                IN  /\ (tok.sig = "valid" /\ now < tok.exp) =>
                          (req'[c].status = 200 /\ req'[c].id = tok.sub)
                    /\ (tok.sig = "valid" /\ now >= tok.exp) =>
                          (/\ req'[c].status = 401
                           /\ req'[c].errors = {<<"detail", "expired">>}
                           /\ req'[c].id = 0)
                    /\ tok.sig = "bad" =>
                          (/\ req'[c].status = 401
                           /\ req'[c].errors = {<<"detail", "invalid">>}
                           /\ req'[c].id = 0)]_vars

\* One client was refused with the token a login or registration gave it,
\* now expired; another was refused with a rewritten copy of a token that
\* has not expired.
C15_Witness ==
    \E c \in Clients, d \in Clients :
        /\ Done(c, "me") /\ req[c].token = held[c] /\ held[c].sig = "valid"
        /\ req[c].status = 401 /\ req[c].errors = {<<"detail", "expired">>}
        /\ Done(d, "me") /\ req[d].token \in Altered(held[d]) /\ held[d].exp > now
        /\ req[d].status = 401 /\ req[d].errors = {<<"detail", "invalid">>}

(***************************************************************************)
(* Properties of the gate in front of the room operations (Spec).          *)
(***************************************************************************)
\* Client c holds a token with a matching signature, not yet expired, of an
\* identity that exists.
Credentialed(c) ==
    /\ held[c].sig = "valid"
    /\ now < held[c].exp
    /\ \E u \in users : u.id = held[c].sub

\* The step in which client c sends a create, join or list request.
Sends(c) == pc[c] = "idle" /\ pc'[c] # "idle" /\ req'[c].op \in {"create", "join", "list"}

\* C16: a create, join or list request without a token, with an invalid
\* token or with an expired one is answered 401 at once and writes nothing;
\* a request runs as the subject of the valid token it was sent with, only
\* such a request writes a room or a membership row, and the rows it writes
\* carry that subject.
C16_RoomOpsGated ==
    [][/\ \A c \in Clients :
             /\ (Sends(c) /\ ~Credentialed(c)) =>
                   (/\ pc'[c] = "done"
                    /\ req'[c].status = 401
                    /\ req'[c].user = 0 /\ req'[c].room = 0 /\ req'[c].list = <<>>
                    /\ rooms' = rooms /\ members' = members)
             /\ (Sends(c) /\ Credentialed(c)) =>
                   (req'[c].status # 401 /\ req'[c].user = held[c].sub)
             /\ (pc[c] # "idle" /\ pc'[c] # "idle") => req'[c].user = req[c].user
       /\ (rooms' # rooms \/ members' # members) =>
             \E c \in Clients :
                 /\ pc'[c] # pc[c]
                 /\ req[c].user # 0
                 /\ \A r \in rooms' \ rooms : r.created_by = req[c].user
                 /\ \A m \in BagToSet(members' (-) members) :
                       m.user = req[c].user /\ m.room = req[c].room]_vars

\* While rooms and memberships exist, one client was refused with an expired
\* token and the other with a token whose signature does not match.
C16_Witness ==
    \E c \in Clients, d \in Clients :
        /\ rooms # {} /\ members # EmptyBag
        /\ pc[c] = "done" /\ req[c].op \in RoomOps /\ req[c].status = 401
        /\ held[c].sig = "valid" /\ held[c].exp <= now
        /\ pc[d] = "done" /\ req[d].op \in RoomOps /\ req[d].status = 401
        /\ held[d].sig = "bad"

(***************************************************************************)
(* Properties of the room list (Spec).                                     *)
(***************************************************************************)
\* The sequence s holds exactly the rooms of rs in which user has a
\* membership in ms, each once, a room created later before one created
\* earlier.
ListsMemberships(s, ms, rs, user) ==
    /\ \A i \in 1..Len(s), j \in 1..Len(s) : i # j => s[i] # s[j]
    /\ {s[i] : i \in 1..Len(s)} = {r.id : r \in {x \in rs : IsMember(ms, x.id, user)}}
    /\ \A i \in 1..Len(s), j \in 1..Len(s) :
          (i < j) => \A a \in rs, b \in rs :
                        (a.id = s[i] /\ b.id = s[j]) => a.created_at >= b.created_at

\* The create request that inserted room r has not ended yet.
CreateInFlight(r) ==
    \E d \in Clients : pc[d] \in {"get", "insert_member"} /\ req[d].op = "create"
                       /\ req[d].room = r.id

\* C17: the answer of list holds exactly the rooms in which the identity has
\* a membership, each once, most recently created first, and among them
\* every room the identity created or joined.
C17_ListsRoomsCreatedOrJoined ==
    [][\A c \in Clients :
          (Answered(c, "list") /\ req'[c].status = 200) =>
              /\ ListsMemberships(req'[c].list, members, rooms, req'[c].user)
              /\ \A r \in rooms :
                    (r.created_by = req'[c].user /\ ~CreateInFlight(r))
                    => \E i \in 1..Len(req'[c].list) : req'[c].list[i] = r.id]_vars

(***************************************************************************)
(* Properties of the handle of a registered identity (AuthSpec).           *)
(***************************************************************************)
\* The step in which create_user of the registration of client c runs.
CreateUserStep(c) == pc[c] = "create_user" /\ pc'[c] = "done"

\* C18: a registration that creates an identity stores the trimmed,
\* lower-cased form of the submitted email both as its username and as its
\* email; a registration that passed the email check and finds its username
\* taken when it inserts is refused by the unique constraint on the
\* username, with 400 'Email already in use.', and creates nothing.
C18_HandleIsNormalizedEmail ==
    [][\A c \in Clients :
          CreateUserStep(c) =>
              LET handle == Normalized(req[c].input)
              IN  IF \E u \in users : u.username = handle
                  THEN /\ req'[c].status = 400
                       /\ req'[c].errors = {<<"message", "Email already in use.">>}
                       /\ users' = users
                  ELSE /\ req'[c].status = 201
                       /\ \E u \in users' \ users :
                             /\ users' = users \cup {u}
                             /\ u.id = req'[c].id
                             /\ u.username = handle
                             /\ u.email = handle
                             /\ u.username = u.email]_vars

\* An identity was created from an email submitted in another letter case
\* and with surrounding whitespace, and a registration that had passed the
\* email check was refused on the username of an identity created meanwhile.
C18_Witness ==
    \E c \in Clients, d \in Clients, u \in users :
        /\ Done(c, "register") /\ req[c].status = 201 /\ u.id = req[c].id
        /\ req[c].input # u.email
        /\ u.username = u.email /\ u.email = Normalized(req[c].input)
        /\ Done(d, "register") /\ req[d].status = 400
        /\ req[d].errors = {<<"message", "Email already in use.">>}
        /\ req[d].email = u.username

====
